---- MODULE Spec2Model ----
(***************************************************************************)
(* glacios2warp: main() walks the (stack, parameters, angle list) triples  *)
(* of a directory and split_mrc() writes one single-frame file per tilt    *)
(* angle.  Angles are held in hundredths of a degree (3.45 is 345), so a   *)
(* value rounded to one decimal is a multiple of 10.                       *)
(***************************************************************************)
EXTENDS Integers, Sequences, FiniteSets, TLC

VARIABLES pc, err, idx, disk, written, spoofed,
          f, start_angle, step, step_high, min_angle, max_angle,
          angles, start_idx, order, n_slices, i, filepath

vars == <<pc, err, idx, disk, written, spoofed,
          f, start_angle, step, step_high, min_angle, max_angle,
          angles, start_idx, order, n_slices, i, filepath>>

(* ------------------------------ bounds -------------------------------- *)
MaxSeries == 2      \* triples yielded by scrape_dir in one run
MaxMetaLines == 2   \* lines of a parameters file
MaxAngles == 3      \* lines of an angle-list file
MaxRunAngles == 2   \* lines of an angle-list file in a run of several series
MaxFrames == 2      \* frames of a stack whose size ignores the angle list

(* ------------------------------ inputs -------------------------------- *)
\* The labels in the order the elif chain tests them.
Labels == <<"start_angle", "step", "step_high", "min_angle", "max_angle">>
LabelSet == {Labels[k] : k \in 1..Len(Labels)}

\* A line of the parameters file is what each of the five regular
\* expressions captures in it: <<v>> for a number, <<>> for no match.
NoMatch == [l \in LabelSet |-> <<>>]
Line(l, v) == [NoMatch EXCEPT ![l] = <<v>>]
MetaLines ==
    { NoMatch,
      Line("start_angle", 0), Line("start_angle", 345), Line("start_angle", 350),
      Line("start_angle", -1000),
      Line("step", 300),
      [Line("start_angle", 0) EXCEPT !["step"] = <<300>>],
      [NoMatch EXCEPT !["step_high"] = <<200>>, !["min_angle"] = <<-6000>>,
                      !["max_angle"] = <<6000>>] }

\* A line of the angle list is <<v>> when float() accepts it, <<>> when not.
AngleTexts == {<<0>>, <<345>>, <<-1000>>, <<>>}
ScenarioTilt == <<<<0>>, <<-1000>>, <<-2000>>, <<1000>>, <<2000>>>>

SeqsUpTo(S, n) == UNION {[1..k -> S] : k \in 0..n}
MetaFiles == SeqsUpTo(MetaLines, MaxMetaLines)
TiltFiles == SeqsUpTo(AngleTexts, MaxAngles) \cup {ScenarioTilt}

\* The files of a run of several series: one-line parameters files and
\* short, well-formed angle lists.
RunMetaFiles == {<<>>} \cup {<<Line("start_angle", v)>> : v \in {0, 345, 350}}
RunTiltFiles == SeqsUpTo({<<0>>, <<345>>}, MaxRunAngles) \cup {<< <<>> >>}

Unbound == <<>>
Closed == [file |-> "none", lines |-> <<>>]
NoPath == [ts |-> <<>>, num |-> <<>>, angle |-> 0]

(* --------------------------- pure functions --------------------------- *)
\* The elif chain: the first label, in chain order, whose pattern matches.
Matched(line) ==
    LET hits == {k \in 1..Len(Labels) : line[Labels[k]] # <<>>}
    IN  IF hits = {} THEN "none"
        ELSE Labels[CHOOSE k \in hits : \A m \in hits : k <= m]

\* Variant: a field keeps the number of its first matching line.
AssignOnce(vals, line) ==
    LET l == Matched(line)
    IN  IF l = "none" \/ vals[l] # <<>> THEN vals ELSE [vals EXCEPT ![l] = line[l]]

\* One iteration of the scan: a matching line assigns its captured number.
Assign(vals, line) ==
    LET l == Matched(line)
    IN  IF l = "none" THEN vals ELSE [vals EXCEPT ![l] = line[l]]

RECURSIVE ScanFrom(_, _, _)
ScanFrom(lines, k, vals) ==
    IF k > Len(lines) THEN vals
    ELSE ScanFrom(lines, k + 1, Assign(vals, lines[k]))

ScanMeta(lines, vals) == ScanFrom(lines, 1, vals)

\* Whether the double nearest to h/100 lies above h/100, for the values
\* in use that end in 5 (3.45 is stored as 3.4500000000000001776...).
StoredAbove(h) == h \in {345}

\* round(x, 1): to the nearest tenth; a value ending in 5 goes the way its
\* stored double leans.
Round1(h) ==
    LET q == h \div 10
        r == h % 10
    IN  IF r < 5 THEN 10 * q
        ELSE IF r > 5 THEN 10 * (q + 1)
        ELSE IF StoredAbove(h) THEN 10 * (q + 1) ELSE 10 * q

\* Variant: a search that answers -1, as str.find does, instead of raising.
indexFind(list, x) ==
    LET hits == {k \in 1..Len(list) : list[k] = x}
    IN  IF hits = {} THEN <<-1>>
        ELSE <<(CHOOSE k \in hits : \A m \in hits : k <= m) - 1>>

\* Variant: a search that falls back to the first frame when nothing matches.
indexOrFirst(list, x) ==
    LET hits == {k \in 1..Len(list) : list[k] = x}
    IN  IF hits = {} THEN <<0>>
        ELSE <<(CHOOSE k \in hits : \A m \in hits : k <= m) - 1>>

\* list.index(x): <<k>> for the first position (from 0) holding x, <<>> for
\* the ValueError raised when no element equals x.
index(list, x) ==
    LET hits == {k \in 1..Len(list) : list[k] = x}
    IN  IF hits = {} THEN <<>>
        ELSE <<(CHOOSE k \in hits : \A m \in hits : k <= m) - 1>>

\* Variant: the order starts at the pivot itself.
StartIdxAtPivot(pos) == pos

StartIdx(pos) == pos + 1

Range(a, b) == IF b > a THEN [k \in 1..(b - a) |-> a + k - 1] ELSE <<>>

\* Variant: the order runs forward from the pivot and back down from it.
ComputeOrderSweep(start, n) ==
    Range(start, n) \o [k \in 1..start |-> start - k]

ComputeOrder(start, n) == Range(start, n) \o Range(0, start)

Min2(a, b) == IF a <= b THEN a ELSE b
ZipLen(o, n, a) == Min2(Len(o), Min2(n, Len(a)))

\* Variant: the slice is picked by the order index.
ZipItemReindexed(o, a, k) ==
    [order_idx |-> o[k + 1], image |-> o[k + 1], angle |-> a[k + 1]]

\* The k-th triple (from 0) of zip(order, slices, angles); a slice is named
\* by its position in the stack.
ZipItem(o, a, k) == [order_idx |-> o[k + 1], image |-> k, angle |-> a[k + 1]]

RECURSIVE Digits(_)
Digits(n) == IF n < 10 THEN <<n>> ELSE Digits(n \div 10) \o <<n % 10>>

\* format(n, '03'): decimal digits, zero-padded to width 3.
Fmt03(n) ==
    LET d == Digits(n)
    IN  IF Len(d) >= 3 THEN d ELSE [k \in 1..(3 - Len(d)) |-> 0] \o d

\* Variant: the series index is left out of the name.
PathNoSeries(series, order_idx, angle) ==
    [ts |-> <<>>, num |-> Fmt03(order_idx), angle |-> angle]

\* '{basename}_TS_{idx:03}' + '_{order_idx:03}[{angle}]_fractions.mrc'
PathOf(series, order_idx, angle) ==
    [ts |-> Fmt03(series), num |-> Fmt03(order_idx), angle |-> angle]

Exists(d, p) == \E e \in d : e.path = p

FrameCounts(tilt) == (1..MaxFrames) \cup ({Len(tilt)} \ {0})

\* What the target directory may hold before the run: nothing, or one file
\* left by an earlier run.
StaleFiles ==
    {[path |-> p, image |-> [series |-> -1, frame |-> 0]] :
        p \in {PathOf(0, 1, 0), PathOf(1, 0, 0)}}

(* ------------------------------- state -------------------------------- *)
Init ==
    /\ pc = "main"
    /\ err = "none"
    /\ idx = 0
    /\ disk \in {{}} \cup {{e} : e \in StaleFiles}
    /\ written = <<>>
    /\ spoofed = FALSE
    /\ f = Closed
    /\ start_angle = Unbound /\ step = Unbound /\ step_high = Unbound
    /\ min_angle = Unbound /\ max_angle = Unbound
    /\ angles = <<>> /\ start_idx = 0 /\ order = <<>>
    /\ n_slices = Unbound /\ i = 0 /\ filepath = NoPath

metaVars == <<start_angle, step, step_high, min_angle, max_angle>>
tiltVars == <<angles, start_idx, order>>
mainVars == <<idx, disk, written, spoofed>>

\* Variant: an error of one series is swallowed and the loop goes on.
MainIterCatch(triples) ==
    /\ pc \in {"main", "failed"}
    /\ idx + (IF pc = "failed" THEN 1 ELSE 0) < triples
    /\ pc' = "meta"
    /\ idx' = idx + (IF pc = "failed" THEN 1 ELSE 0)
    /\ UNCHANGED <<err, disk, written, spoofed, f, metaVars, tiltVars,
                   n_slices, i, filepath>>

\* main: the loop takes the next triple and calls split_mrc.
MainIter(triples) ==
    /\ pc = "main"
    /\ idx < triples
    /\ pc' = "meta"
    /\ UNCHANGED <<err, mainVars, f, metaVars, tiltVars, n_slices, i, filepath>>

\* main: the triples are exhausted; the metadata synthesizer runs.
MainSpoof ==
    /\ pc = "main"
    /\ spoofed' = TRUE
    /\ pc' = "done"
    /\ UNCHANGED <<err, idx, disk, written, f, metaVars, tiltVars,
                   n_slices, i, filepath>>

\* split_mrc: the scan of the parameters file.
ParseMeta(files) ==
    /\ pc = "meta"
    /\ \E file \in files :
         LET vals == ScanMeta(file, NoMatch)
         IN  /\ f' = [file |-> "meta", lines |-> file]
             /\ start_angle' = vals["start_angle"]
             /\ step' = vals["step"]
             /\ step_high' = vals["step_high"]
             /\ min_angle' = vals["min_angle"]
             /\ max_angle' = vals["max_angle"]
    /\ pc' = "tilt"
    /\ UNCHANGED <<err, mainVars, tiltVars, n_slices, i, filepath>>

Raise(e) == pc' = "failed" /\ err' = e

\* split_mrc: the angle list, the pivot and the order.
ParseTilt(files) ==
    /\ pc = "tilt"
    /\ \E file \in files :
         /\ f' = [file |-> "tilt", lines |-> file]
         /\ IF \E k \in 1..Len(file) : file[k] = <<>>
            THEN /\ Raise("ValueError_float")
                 /\ UNCHANGED tiltVars
            ELSE LET a == [k \in 1..Len(file) |-> Round1(file[k][1])]
                 IN  /\ angles' = a
                     /\ IF start_angle = Unbound
                        THEN Raise("UnboundLocalError") /\ UNCHANGED <<start_idx, order>>
                        ELSE LET pos == index(a, start_angle[1])
                             IN  IF pos = <<>>
                                 THEN Raise("ValueError_index")
                                      /\ UNCHANGED <<start_idx, order>>
                                 ELSE /\ start_idx' = StartIdx(pos[1])
                                      /\ order' = ComputeOrder(StartIdx(pos[1]), Len(a))
                                      /\ pc' = "mmap"
                                      /\ UNCHANGED err
    /\ UNCHANGED <<mainVars, metaVars, n_slices, i, filepath>>

\* split_mrc: the stack is mapped and cut into its frames.
OpenStack ==
    /\ pc = "mmap"
    /\ \E readable \in BOOLEAN :
         IF readable
         THEN /\ \E n \in FrameCounts(angles) : n_slices' = <<n>>
              /\ pc' = "emit"
              /\ UNCHANGED err
         ELSE Raise("OSError") /\ UNCHANGED n_slices
    /\ i' = 0
    /\ UNCHANGED <<mainVars, f, metaVars, tiltVars, filepath>>

\* split_mrc: one iteration of the loop over zip(order, slices, angles).
WriteFrame ==
    /\ pc = "emit"
    /\ i < ZipLen(order, n_slices[1], angles)
    /\ LET t == ZipItem(order, angles, i)
           p == PathOf(idx, t.order_idx, t.angle)
       IN  /\ filepath' = p
           /\ IF Exists(disk, p)
              THEN /\ Raise("ValueError_exists")
                   /\ UNCHANGED <<disk, written, i>>
              ELSE /\ disk' = disk \cup {[path |-> p, image |-> [series |-> idx, frame |-> t.image]]}
                   /\ written' = Append(written, [path |-> p, image |-> [series |-> idx, frame |-> t.image]])
                   /\ i' = i + 1
                   /\ UNCHANGED <<pc, err>>
    /\ UNCHANGED <<idx, spoofed, f, metaVars, tiltVars, n_slices>>

\* split_mrc returns: its locals are gone and the loop of main advances.
SplitReturn ==
    /\ pc = "emit"
    /\ i = ZipLen(order, n_slices[1], angles)
    /\ pc' = "main"
    /\ idx' = idx + 1
    /\ f' = Closed
    /\ start_angle' = Unbound /\ step' = Unbound /\ step_high' = Unbound
    /\ min_angle' = Unbound /\ max_angle' = Unbound
    /\ angles' = <<>> /\ start_idx' = 0 /\ order' = <<>>
    /\ n_slices' = Unbound /\ i' = 0 /\ filepath' = NoPath
    /\ UNCHANGED <<err, disk, written, spoofed>>

\* A run over up to MaxSeries tilt series.
Next ==
    \/ MainIter(MaxSeries)
    \/ MainSpoof
    \/ ParseMeta(RunMetaFiles)
    \/ ParseTilt(RunTiltFiles)
    \/ OpenStack
    \/ WriteFrame
    \/ SplitReturn

Spec == Init /\ [][Next]_vars

\* A run over a directory holding one tilt series, its files drawn from
\* the larger sets.
NextSplit ==
    \/ MainIter(1)
    \/ MainSpoof
    \/ ParseMeta(MetaFiles)
    \/ ParseTilt(TiltFiles)
    \/ OpenStack
    \/ WriteFrame
    \/ SplitReturn

SpecSplit == Init /\ [][NextSplit]_vars

(* ------------------------------ properties ---------------------------- *)
\* The files the current call of split_mrc has written, in write order.
OfSeries(w) == w.image.series = idx
Mine == SelectSeq(written, OfSeries)

FieldOf(l) ==
    CASE l = "start_angle" -> start_angle
      [] l = "step" -> step
      [] l = "step_high" -> step_high
      [] l = "min_angle" -> min_angle
      [] l = "max_angle" -> max_angle

\* The angle list has been read and every line of it was a number.
AnglesRead == f.file = "tilt" /\ err # "ValueError_float"

\* The positions (from 1) of the angle list that equal the start angle.
Occurrences ==
    IF start_angle = Unbound THEN {}
    ELSE {k \in 1..Len(angles) : angles[k] = start_angle[1]}

PivotFound == AnglesRead /\ Occurrences # {}

\* The pivot s (from 0): the first occurrence of the start angle.
Pivot == (CHOOSE k \in Occurrences : \A m \in Occurrences : k <= m) - 1

\* C1: for N >= 1 angles and pivot s, the order has length N, is a
\* permutation of 0..N-1, is the rotation s+1, ..., N-1, 0, ..., s, begins
\* with (s+1) mod N and ends with s.
C1_OrderIsRotation ==
    PivotFound =>
        LET N == Len(angles)
        IN  /\ Len(order) = N
            /\ {order[k] : k \in 1..N} = 0..(N - 1)
            /\ \A k \in 1..N : order[k] = (Pivot + k) % N
            /\ order[1] = (Pivot + 1) % N
            /\ order[N] = Pivot

C1_Witness ==
    /\ PivotFound
    /\ pc = "mmap"
    /\ Len(angles) = 3
    /\ Pivot = 1

\* C2: a start angle of 3.45 is rounded to 3.5 before the lookup, so with
\* 3.5 in the angle list the pivot is the first 3.5 and the split goes on.
C2_RoundedLookup ==
    (AnglesRead /\ start_angle = <<345>> /\ \E k \in 1..Len(angles) : angles[k] = 350)
        => /\ err # "ValueError_index"
           /\ \E k \in 1..Len(angles) :
                /\ angles[k] = 350
                /\ \A m \in 1..(k - 1) : angles[m] # 350
                /\ start_idx = k

\* C3: a start angle that occurs exactly once is found at that position; a
\* start angle that occurs nowhere makes split_mrc fail before the stack is
\* opened and before any file is written.
C3_PivotLookup ==
    AnglesRead =>
        /\ Cardinality(Occurrences) = 1 =>
              /\ err \notin {"ValueError_index", "UnboundLocalError"}
              /\ \A k \in Occurrences : start_idx = k
        /\ Occurrences = {} =>
              /\ pc = "failed"
              /\ err \in {"ValueError_index", "UnboundLocalError"}
              /\ n_slices = Unbound
              /\ Mine = <<>>

C3_Witness ==
    /\ AnglesRead
    /\ pc = "emit"
    /\ Len(angles) = 3
    /\ Occurrences = {3}

\* The scenario: angles 0.0, -10.0, -20.0, 10.0, 20.0, start angle 0.0, a
\* stack of five frames, every frame written.
InScenario ==
    /\ pc = "emit"
    /\ f = [file |-> "tilt", lines |-> ScenarioTilt]
    /\ start_angle = <<0>>
    /\ n_slices = <<5>>
    /\ i = 5

\* C4 as stated: the frame at index 1 goes to file 001 labelled -10.0 and
\* the pivot frame at index 0 is written last, to file 004 labelled 0.0.
C4_PivotWrittenLast ==
    InScenario =>
        /\ \E k \in 1..Len(Mine) :
              /\ Mine[k].image.frame = 1
              /\ Mine[k].path.num = <<0, 0, 1>>
              /\ Mine[k].path.angle = -1000
        /\ Mine[5].image.frame = 0
        /\ Mine[5].path.num = <<0, 0, 4>>
        /\ Mine[5].path.angle = 0

\* C4 amended: the order is [1,2,3,4,0]; the frame at index 1 goes to file
\* 002 labelled -10.0 and the pivot frame at index 0 is written first, to
\* file 001 labelled 0.0.
C4_PivotWrittenFirst ==
    InScenario =>
        /\ order = <<1, 2, 3, 4, 0>>
        /\ Len(Mine) = 5
        /\ Mine[2].image.frame = 1
        /\ Mine[2].path.num = <<0, 0, 2>>
        /\ Mine[2].path.angle = -1000
        /\ Mine[1].image.frame = 0
        /\ Mine[1].path.num = <<0, 0, 1>>
        /\ Mine[1].path.angle = 0

C4_Witness == InScenario /\ Len(Mine) = 5

\* C5: when the angle count differs from the frame count of the opened
\* stack, no file of the series is written.
C5_FailFast ==
    (AnglesRead /\ n_slices # Unbound /\ n_slices # <<Len(angles)>>)
        => Mine = <<>>

\* C6 as stated: an empty angle list ends without an error and without a
\* file.
C6_EmptyIsSilent ==
    (f = [file |-> "tilt", lines |-> <<>>])
        => (pc # "failed" /\ Mine = <<>>)

\* C6 amended: an empty angle list makes split_mrc fail in the pivot lookup,
\* before the stack is opened, and no file is written.
C6_EmptyFails ==
    (f = [file |-> "tilt", lines |-> <<>>])
        => /\ pc = "failed"
           /\ err \in {"ValueError_index", "UnboundLocalError"}
           /\ n_slices = Unbound
           /\ Mine = <<>>

C6_Witness ==
    /\ f = [file |-> "tilt", lines |-> <<>>]
    /\ start_angle = <<0>>
    /\ err = "ValueError_index"

\* The lines (from 1) of the parameters file just scanned on which label l
\* is the one the elif chain assigns.
LinesFor(l) == {j \in 1..Len(f.lines) : Matched(f.lines[j]) = l}

\* C7 as stated: a field keeps the number of its first matching line.
C7_FirstKept ==
    f.file = "meta" =>
        \A l \in LabelSet :
            LET J == LinesFor(l)
            IN  J # {} =>
                  FieldOf(l) = f.lines[CHOOSE j \in J : \A m \in J : j <= m][l]

\* C7 amended: a field keeps the number of its last matching line, and is
\* unbound when no line matches.
C7_LastKept ==
    f.file = "meta" =>
        \A l \in LabelSet :
            LET J == LinesFor(l)
            IN  FieldOf(l) =
                  IF J = {} THEN Unbound
                  ELSE f.lines[CHOOSE j \in J : \A m \in J : j >= m][l]

C7_Witness ==
    /\ f.file = "meta"
    /\ \E j \in LinesFor("start_angle") : \E m \in LinesFor("start_angle") :
          j < m /\ f.lines[j]["start_angle"] # f.lines[m]["start_angle"]

\* C8: once a series has raised, the run stays halted: the loop does not
\* advance, the metadata synthesizer has not run and never runs, no file of
\* a later series exists and the files written so far stay on disk.
C8_HaltOnError ==
    /\ [](pc = "failed" =>
            /\ ~spoofed
            /\ \A k \in 1..Len(written) :
                  written[k].image.series <= idx /\ written[k] \in disk)
    /\ [][pc = "failed" =>
            /\ pc' = "failed"
            /\ idx' = idx
            /\ spoofed' = spoofed
            /\ written' = written
            /\ disk' = disk]_vars

C8_Witness ==
    /\ pc = "failed"
    /\ idx = 1
    /\ Mine # <<>>
    /\ \E k \in 1..Len(written) : written[k].image.series = 0

\* C9: with as many angles as frames, the k-th write of the call holds the
\* frame at position k, is numbered order[k] and is labelled angles[k].
C9_StorageOrder ==
    (AnglesRead /\ n_slices = <<Len(angles)>>) =>
        /\ Len(Mine) = i
        /\ \A k \in 1..Len(Mine) :
              /\ Mine[k].image.frame = k - 1
              /\ Mine[k].path.num = Fmt03(order[k])
              /\ Mine[k].path.angle = angles[k]

C9_Witness ==
    /\ pc = "emit"
    /\ n_slices = <<Len(angles)>>
    /\ Len(angles) = 3
    /\ i = 3
    /\ order = <<2, 0, 1>>

\* C10: the paths written in a run are pairwise distinct, and a write that
\* is refused because its path exists never collides with a file of the
\* same run.
C10_DistinctPaths ==
    /\ \A a, b \in 1..Len(written) :
          a # b => written[a].path # written[b].path
    /\ err = "ValueError_exists" =>
          \A a \in 1..Len(written) : written[a].path # filepath

C10_Witness ==
    /\ Len(written) = 4
    /\ written[1].image.series = 0 /\ written[2].image.series = 0
    /\ written[3].image.series = 1 /\ written[4].image.series = 1
    /\ written[1].path.num = written[3].path.num
    /\ written[1].path.angle = written[3].path.angle

====
